---- MODULE Spec2Model ----
(***************************************************************************)
(* Bulk import pipeline of the excel-import microservice.                  *)
(*                                                                         *)
(* The model follows ONE import job from upload to its end: its record in  *)
(* the BullMQ queue, the worker callback ImportWorker.processJob running   *)
(* ImportService.processImport over the batches of the uploaded file, and  *)
(* a client calling JobService.cancelJob.  Jobs share no state in the code *)
(* (each has its own queue record, its own temporary file and its own      *)
(* processImport locals), so one job is followed.  Every await of the code *)
(* is a position of a process (pc for the worker callback, cpc for the     *)
(* cancel request), so the steps of the two interleave as they do on the   *)
(* event loop.                                                             *)
(*                                                                         *)
(* The queue is taken as reliable: an active job stays with the worker     *)
(* that claimed it (no stalled-job recovery hands it to a second one).     *)
(* What the queue answers to job.remove() for an active job is left open:  *)
(* it refuses while the worker holds the job's lock (cancelJob's catch     *)
(* block then returns false) and removes the job when the lock has lapsed. *)
(***************************************************************************)
EXTENDS Integers, Sequences, FiniteSets, TLC

(***************************************************************************)
(* Bounds of the model.                                                    *)
(***************************************************************************)
MaxBatches == 2      \* the uploaded file holds at most this many batches
MaxBlank == 1        \* rows counted by worksheet.rowCount but not admitted
MaxCancels == 2      \* cancel requests a client sends for the job
MaxSkip == 1         \* the skipRows a client sends with the upload is at most this
MaxCols == 2         \* columns of a worksheet
MaxSmallRows == 3    \* rows of the worksheets whose cells take every shape
MaxRecords == 3      \* records of a batch handed to the repository
MaxJobs == 101       \* jobs added to the queue: one more than removeOnComplete.count
MaxSignals == 3      \* SIGTERM/SIGINT delivered to the process
MaxConnections == 2  \* HTTP connections open at once
MaxActive == 2       \* jobs the worker processes at once (workerOptions.concurrency at most)

(***************************************************************************)
(* Program constants.                                                      *)
(***************************************************************************)
batchSize == 500             \* excel.service.ts: const batchSize = 500
queueConfig_attempts == 3    \* queue.config.ts: QUEUE_ATTEMPTS default
queueConfig_backoffDelay == 5000 \* queue.config.ts: QUEUE_BACKOFF_DELAY

VARIABLES
  \* the uploaded file in temporary storage
  fileExists,     \* fs.existsSync(filePath)
  admitted,       \* rows the reader admits (hasData), in file order
  sheetRows,      \* worksheet.rowCount - 1: rows below the header row
  tableThere,     \* the target table exists in the database
  skipRows,       \* req.body.skipRows of the upload request
  onProgress,     \* the callback passed to processImport: the worker's, or one that throws
  \* the job's record in the queue
  qstate,         \* none, waiting, active, delayed, completed, failed, removed
  attemptsMade,   \* job.attemptsMade
  progress,       \* job.progress as persisted: <<>> or <<JobProgress>>
  failedReason,   \* job.failedReason: <<>> or <<message>>
  returnvalue,    \* job.returnvalue: <<>> or <<result>>
  delays,         \* backoff delays the queue applied, in order
  jobData,        \* job.data as enqueued: <<>> or <<JobData>>
  \* ImportWorker.processJob / ImportService.processImport
  pc,             \* position of the worker callback
  totalRecords, successCount, failedCount, processedCount,
  batchNo,        \* batches the generator has yielded so far
  outcome,        \* how the last attempt ended: none, returned, threw
  err,            \* the error the last throwing attempt threw: <<>> or <<msg>>
  inflight,       \* updateProgress commands sent and not yet executed
  \* JobService.cancelJob
  cpc,            \* position of the cancel request
  cstate,         \* the state job.getState() returned to cancelJob
  cancelResult,   \* what the last cancelJob call returned: <<>> or <<bool>>
  \* observation
  lastCb,         \* the last onProgress call: its argument and the counters
  started,        \* batches whose bulk insert was started, in order
  inserts,        \* bulk inserts that have settled, in order: batch, ok
  callbacks,      \* batches after which onProgress was called, in order
  claims,         \* times the job moved to active
  unlinks,        \* times fs.unlinkSync removed the file
  cancels,        \* cancelJob calls made
  activeCancelled, \* a cancelJob call removed the job while it was active
  \* the process (HTTP server and worker)
  exited,         \* process.exit(1) was called
  \* ExcelService.streamExcelRows, one call of the generator
  worksheet,      \* the first sheet of the workbook read
  srSkipRows,     \* the skipRows argument
  srpc,           \* position of the generator
  batch,          \* the rows pushed to `batch`, by row number
  srIndex,        \* the loop variable i of the yield loop
  emitted,        \* the slices yielded so far
  \* the upload request and ImportService.validateImport
  request,        \* the route the client calls: upload or validate
  validateOnly,   \* req.body.validateOnly
  tableColumns,   \* the columns of the target table, in ordinal order
  validation,     \* what validateImport returned: <<>> or <<call>>
  response,       \* the HTTP status sent: <<>> or <<status>>
  \* a call of DataRepository.bulkInsertWithTVP or DataRepository.bulkInsert
  records,        \* the batch passed in
  columnMapping,  \* <<>> when undefined, else <<mapping>>
  method,         \* which of the two is called: "tvp" or "rows"
  dpc,            \* where the call stands
  table,          \* the sql.Table built: <<>> or <<[columns, rows]>>
  transaction,    \* none, begun, aborted (by the engine), committed
  rowIndex,       \* bulkInsert's loop variable i
  inserted,       \* bulkInsert's counter
  insertErrors,   \* bulkInsert's errors array
  attempts,       \* the statements sent to the engine and how each ended
  dbResult,       \* the BatchInsertResult returned: <<>> or <<result>>
  dbError,        \* the error thrown: <<>> or <<message>>
  \* the jobs the queue holds, by state
  waitingJobs,    \* jobs added and not finished
  completedJobs,  \* jobs in the completed set
  failedJobs,     \* jobs in the failed set
  \* the process and its signal handlers
  phase,          \* starting (startServer under way), listening, closing
  signals,        \* SIGTERM/SIGINT delivered so far
  workerHandlers, \* the worker module's handlers waiting in await stopWorker()
  shutdowns,      \* gracefulShutdown, one position per signal
  timers,         \* 30 s timers armed
  connections,    \* open HTTP connections
  worker,         \* the BullMQ worker: none, open, closing, closed
  activeJobs,     \* jobs the worker is processing
  pool,           \* the database pool: none, open, closed
  exitCode,       \* <<>> while the process runs, else <<code>>
  \* a client's status request: JobService.getJobStatus
  spc,            \* position of the request
  snapshot,       \* the job as queue.getJob read it: <<>> or <<job>>
  statusResult    \* what getJobStatus returned: <<>> or <<call>>

vars == <<fileExists, admitted, sheetRows, tableThere, skipRows, onProgress,
          qstate, attemptsMade, progress, failedReason, returnvalue, delays,
          jobData,
          pc, totalRecords, successCount, failedCount, processedCount,
          batchNo, outcome, err, inflight,
          cpc, cstate, cancelResult,
          lastCb, started, inserts, callbacks,
          claims, unlinks, cancels, activeCancelled, exited,
          worksheet, srSkipRows, srpc, batch, srIndex, emitted,
          request, validateOnly, tableColumns, validation, response,
          records, columnMapping, method, dpc, table, transaction, rowIndex,
          inserted, insertErrors, attempts, dbResult, dbError,
          waitingJobs, completedJobs, failedJobs,
          phase, signals, workerHandlers, shutdowns, timers, connections,
          worker, activeJobs, pool, exitCode,
          spc, snapshot, statusResult>>

\* the job and everything around it
mainVars == <<fileExists, admitted, sheetRows, tableThere, skipRows, onProgress,
              qstate, attemptsMade, progress, failedReason, returnvalue,
              delays, jobData,
              pc, totalRecords, successCount, failedCount, processedCount,
              batchNo, outcome, err, inflight,
              cpc, cstate, cancelResult,
              lastCb, started, inserts, callbacks,
              claims, unlinks, cancels, activeCancelled, exited>>
readerVars == <<worksheet, srSkipRows, srpc, batch, srIndex, emitted>>
validateVars == <<request, validateOnly, tableColumns, validation, response>>
repoVars == <<records, columnMapping, method, dpc, table, transaction, rowIndex,
              inserted, insertErrors, attempts, dbResult, dbError>>
queueVars == <<waitingJobs, completedJobs, failedJobs>>
processVars == <<phase, signals, workerHandlers, shutdowns, timers, connections,
                 worker, activeJobs, pool, exitCode>>
statusVars == <<spc, snapshot, statusResult>>
unitVars == <<readerVars, validateVars, repoVars, queueVars, processVars, statusVars>>

fileVars == <<admitted, sheetRows, tableThere, skipRows, onProgress>>
jobVars == <<qstate, attemptsMade, progress, failedReason, returnvalue, delays>>
importVars == <<totalRecords, successCount, failedCount, processedCount, batchNo>>
obsVars == <<started, inserts, callbacks>>
cancelVars == <<cpc, cstate, cancelResult, cancels, activeCancelled>>

\* qstate is one of: none (not enqueued yet), waiting, active, delayed,
\* completed, failed, removed
Terminal == {"completed", "failed"}

Max(a, b) == IF a >= b THEN a ELSE b
Min(a, b) == IF a <= b THEN a ELSE b

(***************************************************************************)
(* The files a client can upload: up to MaxBatches batches of admitted     *)
(* rows, the last one full, one row long or one row short of full, and up  *)
(* to MaxBlank further rows that worksheet.rowCount counts and the reader  *)
(* drops (blank rows between data rows).                                   *)
(***************************************************************************)
FileSizes ==
  {0} \cup { k * batchSize + r : k \in 0..(MaxBatches - 1), r \in {1, batchSize - 1, batchSize} }

\* a variant that truncates the quotient instead of rounding it
MathRound_Truncated(num, den) == num \div den

\* Math.round(x) for x = processed / total * 100 >= 0: floor(x + 1/2)
MathRound(num, den) == (2 * num + den) \div (2 * den)

\* the JobProgress processImport builds after a batch
JobProgress(total, processed, failed) ==
  [ total |-> total, processed |-> processed, failed |-> failed,
    percentage |-> IF total = 0 THEN 0 ELSE MathRound(processed * 100, total) ]

\* batch.length of the batch the generator yields after `n` batches
BatchLength(n) == Min(batchSize, admitted - n * batchSize)

\* the skipRows argument processJob passes to processImport
processJob_skipRows == 0

\* ExcelService.getRowCount: worksheet.rowCount - (1 + skip), at least 0;
\* sheetRows is worksheet.rowCount - 1
getRowCount(skip) == Max(0, sheetRows - skip)

(***************************************************************************)
(* ExcelService.streamExcelRows: one call of the generator on a workbook.  *)
(*                                                                         *)
(* A cell is [type, value, richText]: type is the cell's ExcelJS           *)
(* ValueType, value its plain value (for a formula cell the formula's      *)
(* result, for a hyperlink cell the link's text), richText the texts of a  *)
(* rich-text cell.  A value is [kind, text]: text is what String(value)    *)
(* gives.  A row is a sequence of MaxCols cells.                           *)
(***************************************************************************)
NullV == [ kind |-> "null", text |-> "null" ]
Str(s) == [ kind |-> "string", text |-> s ]
Num(s) == [ kind |-> "number", text |-> s ]
Obj == [ kind |-> "object", text |-> "[object Object]" ]

NullCell == [ type |-> "Null", value |-> NullV, richText |-> <<>> ]
StringCell(s) == [ type |-> "String", value |-> Str(s), richText |-> <<>> ]
NumberCell(s) == [ type |-> "Number", value |-> Num(s), richText |-> <<>> ]
BooleanCell(s) == [ type |-> "Boolean", value |-> [ kind |-> "boolean", text |-> s ], richText |-> <<>> ]
DateCell(s) == [ type |-> "Date", value |-> [ kind |-> "date", text |-> s ], richText |-> <<>> ]
FormulaCell(result) == [ type |-> "Formula", value |-> result, richText |-> <<>> ]
RichTextCell(parts) == [ type |-> "RichText", value |-> Obj, richText |-> parts ]
HyperlinkCell(s) == [ type |-> "Hyperlink", value |-> Str(s), richText |-> <<>> ]

\* the cells tried in the first column and in the other columns of a row
FirstCells ==
  { NullCell, StringCell(""), StringCell(" "), StringCell(" A "), StringCell("A"),
    NumberCell("0"), BooleanCell("false"), DateCell("2024-01-01"),
    FormulaCell(NullV), FormulaCell(Str("")), FormulaCell(Num("3")), FormulaCell(Obj),
    RichTextCell(<<"", "">>), RichTextCell(<<"a", "b">>),
    HyperlinkCell(""), HyperlinkCell("link") }
OtherCells == { NullCell, StringCell("B") }

Cols == 1..MaxCols
Rows == { row \in [Cols -> FirstCells \cup OtherCells] :
            /\ row[1] \in FirstCells
            /\ \A c \in Cols \ {1} : row[c] \in OtherCells }
BlankRow == [ c \in Cols |-> NullCell ]
PlainRow == [ c \in Cols |-> IF c = 1 THEN StringCell("x") ELSE NullCell ]
HeaderRow == [ c \in Cols |-> IF c = 1 THEN StringCell("A") ELSE StringCell("B") ]

\* worksheet.getRow(r): a sheet is given by its row count, its first row,
\* one more row of any shape at `probeAt`, and the rows `blankAt` that have
\* no value; the other rows are plain data rows
RowAt(ws, r) ==
  IF r < 1 \/ r > ws.rowCount THEN BlankRow
  ELSE IF r = 1 THEN ws.first
  ELSE IF r = ws.probeAt THEN ws.probe
  ELSE IF r \in ws.blankAt THEN BlankRow
  ELSE PlainRow

\* String.prototype.trim on the texts the header cells carry
Trim(s) == CASE s = " " -> "" [] s = " A " -> "A" [] OTHER -> s

\* String(cell.value): the value of a formula, rich-text or hyperlink cell
\* is an object
StringOfCellValue(cell) ==
  IF cell.type \in {"Formula", "RichText", "Hyperlink"} THEN Obj.text
  ELSE cell.value.text

\* headers[colNumber - 1] = String(cell.value).trim() for the cells of the
\* header row that have a value: <<>> is undefined
Headers(ws, skip) ==
  [ c \in Cols |->
      LET cell == RowAt(ws, 1 + skip)[c]
      IN IF cell.type = "Null" THEN <<>> ELSE << Trim(StringOfCellValue(cell)) >> ]

\* a variant without the test `if (header)`
HeaderGiven_Always(h) == TRUE

\* if (header): the header is neither undefined nor ''
HeaderGiven(h) == h # <<>> /\ h[1] # ""

\* richText.map((rt) => rt.text).join('')
RECURSIVE Join(_)
Join(parts) == IF parts = <<>> THEN "" ELSE Head(parts) \o Join(Tail(parts))

\* ExcelService.getCellValue
getCellValue(cell) ==
  IF cell.type = "Null" THEN NullV
  ELSE IF cell.type = "Date" THEN cell.value
  ELSE IF cell.type = "Formula"
  THEN IF cell.value.kind = "null" THEN NullV
       ELSE IF cell.value.kind \in {"number", "string"} THEN cell.value
       ELSE Str(cell.value.text)
  ELSE IF cell.type = "RichText" THEN Str(Join(cell.richText))
  ELSE IF cell.type = "Hyperlink" THEN Str(cell.value.text)
  ELSE cell.value

\* value !== null && value !== ''
IsData(value) == value.kind # "null" /\ ~(value.kind = "string" /\ value.text = "")

\* row.eachCell({includeEmpty: true}, ...): the flag hasData after the cells
\* from column c on, given the flag before them
RECURSIVE hasData(_, _, _, _)
hasData(row, headers, c, flag) ==
  IF c > MaxCols THEN flag
  ELSE hasData(row, headers, c + 1,
               IF HeaderGiven(headers[c]) /\ IsData(getCellValue(row[c]))
               THEN TRUE ELSE flag)

\* if (rowNumber <= 1 + skipRows) return
IsSkipped(rowNumber, skip) == rowNumber <= 1 + skip

\* worksheet.eachRow({includeEmpty: false}, ...) visits the rows that have a
\* value; the callback pushes the row when it is below the header row and
\* hasData
Pushed(ws, skip, r) ==
  /\ \E c \in Cols : RowAt(ws, r)[c].type # "Null"
  /\ ~IsSkipped(r, skip)
  /\ hasData(RowAt(ws, r), Headers(ws, skip), 1, FALSE)

\* `batch` after eachRow: the pushed rows in the order of the sheet
Collect(ws, skip) ==
  SelectSeq([ r \in 1..ws.rowCount |-> r ], LAMBDA r : Pushed(ws, skip, r))

\* a variant of slice that takes the element at `to` as well
Slice_Inclusive(seq, from, to) == SubSeq(seq, from + 1, Min(to + 1, Len(seq)))

\* Array.prototype.slice(from, to) for 0 <= from <= to
Slice(seq, from, to) == SubSeq(seq, from + 1, Min(to, Len(seq)))

\* a variant of the loop that steps one element too far
NextIndex_OneMore(i) == i + batchSize + 1

\* i += batchSize
NextIndex(i) == i + batchSize

\* for (...; i < batch.length; ...) yield batch.slice(i, i + batchSize): the
\* loop test and the yield for the rows b and the index i
YieldLoop(b, i) ==
  /\ srIndex' = i
  /\ IF i < Len(b)
     THEN /\ emitted' = Append(emitted, Slice(b, i, i + batchSize))
          /\ srpc' = "yielded"
     ELSE /\ srpc' = "done"
          /\ UNCHANGED emitted

\* the first next(): await workbook.xlsx.readFile, the worksheet, the
\* headers, eachRow, and the loop up to its first yield
SR_first ==
  /\ srpc = "start"
  /\ \E readOk \in BOOLEAN :
       IF ~readOk \/ worksheet = <<>>
       THEN \* readFile threw, or 'Worksheet default not found'
            /\ srpc' = "threw"
            /\ UNCHANGED <<batch, srIndex, emitted>>
       ELSE /\ batch' = Collect(worksheet[1], srSkipRows)
            /\ YieldLoop(batch', 0)
  /\ UNCHANGED <<mainVars, validateVars, repoVars, queueVars, processVars, statusVars, worksheet, srSkipRows>>

\* a later next(): the generator resumes after its yield
SR_next ==
  /\ srpc = "yielded"
  /\ YieldLoop(batch, NextIndex(srIndex))
  /\ UNCHANGED <<mainVars, validateVars, repoVars, queueVars, processVars, statusVars, worksheet, srSkipRows, batch>>

\* the client uploads for import
ValidateIdle ==
  /\ request = "upload"
  /\ validateOnly = "undefined"
  /\ tableColumns = <<"A">>
  /\ validation = <<>>
  /\ response = <<>>

\* the queue holds no other job
QueueIdle ==
  /\ waitingJobs = 0
  /\ completedJobs = 0
  /\ failedJobs = 0

\* the process runs and no signal has reached it
ProcessIdle ==
  /\ phase = "listening"
  /\ signals = 0
  /\ workerHandlers = 0
  /\ shutdowns = <<>>
  /\ timers = 0
  /\ connections = 0
  /\ worker = "open"
  /\ activeJobs = 0
  /\ pool = "open"
  /\ exitCode = <<>>

\* no status request is under way
StatusIdle ==
  /\ spc = "idle"
  /\ snapshot = <<>>
  /\ statusResult = <<>>

\* no call of the repository's insert methods is under way
RepoIdle ==
  /\ records = <<>>
  /\ columnMapping = <<>>
  /\ method = "none"
  /\ dpc = "idle"
  /\ table = <<>>
  /\ transaction = "none"
  /\ rowIndex = 0
  /\ inserted = 0
  /\ insertErrors = <<>>
  /\ attempts = <<>>
  /\ dbResult = <<>>
  /\ dbError = <<>>

\* no job is enqueued and no worker or cancel request is under way
JobIdle ==
  /\ qstate = "none"
  /\ attemptsMade = 0
  /\ progress = <<>>
  /\ failedReason = <<>>
  /\ returnvalue = <<>>
  /\ delays = <<>>
  /\ jobData = <<>>
  /\ pc = "idle"
  /\ totalRecords = 0
  /\ successCount = 0
  /\ failedCount = 0
  /\ processedCount = 0
  /\ batchNo = 0
  /\ outcome = "none"
  /\ err = <<>>
  /\ inflight = <<>>
  /\ cpc = "idle"
  /\ cstate = "none"
  /\ cancelResult = <<>>
  /\ lastCb = <<>>
  /\ started = <<>>
  /\ inserts = <<>>
  /\ callbacks = <<>>
  /\ claims = 0
  /\ unlinks = 0
  /\ cancels = 0
  /\ activeCancelled = FALSE
  /\ exited = FALSE

\* nothing but the call followed happens
MainIdle ==
  /\ fileExists = TRUE
  /\ admitted = 0
  /\ sheetRows = 0
  /\ tableThere = TRUE
  /\ skipRows = 0
  /\ onProgress = "worker"
  /\ JobIdle

\* small sheets of every shape: up to MaxSmallRows rows, any first row, any
\* row at the probe's place
SmallSheets ==
  { [ rowCount |-> n, first |-> f, probeAt |-> at, probe |-> p, blankAt |-> {} ] :
      n \in 0..MaxSmallRows, f \in Rows, at \in 2..3, p \in Rows }

\* large sheets: a header row, plain data rows that fill up to MaxBatches
\* batches or leave the last one short or one row long, and rows without a
\* value among them
LargeSheets ==
  { [ rowCount |-> k * batchSize + d, first |-> HeaderRow, probeAt |-> 0,
      probe |-> BlankRow, blankAt |-> blank ] :
      k \in 1..MaxBatches, d \in 0..2,
      blank \in SUBSET {2, 3, batchSize + 1} }

ReaderInit ==
  /\ MainIdle
  /\ ValidateIdle
  /\ RepoIdle
  /\ QueueIdle
  /\ ProcessIdle
  /\ StatusIdle
  /\ worksheet \in {<<>>} \cup { <<ws>> : ws \in SmallSheets \cup LargeSheets }
  /\ srSkipRows \in 0..MaxSkip
  /\ srpc = "start"
  /\ batch = <<>>
  /\ srIndex = 0
  /\ emitted = <<>>

ReaderNext == SR_first \/ SR_next

ReaderSpec == ReaderInit /\ [][ReaderNext]_vars

\* no call of the reader is followed
ReaderIdle ==
  /\ worksheet = <<>>
  /\ srSkipRows = 0
  /\ srpc = "idle"
  /\ batch = <<>>
  /\ srIndex = 0
  /\ emitted = <<>>

UnitIdle ==
  ReaderIdle /\ ValidateIdle /\ RepoIdle /\ QueueIdle /\ ProcessIdle /\ StatusIdle

\* a file has been uploaded and stored; nothing is enqueued yet
Uploaded ==
  /\ UnitIdle
  /\ fileExists = TRUE
  /\ admitted \in FileSizes
  /\ sheetRows \in admitted..(admitted + MaxBlank)
  /\ tableThere \in BOOLEAN
  /\ skipRows \in 0..MaxSkip
  /\ qstate = "none"
  /\ attemptsMade = 0
  /\ progress = <<>>
  /\ failedReason = <<>>
  /\ returnvalue = <<>>
  /\ delays = <<>>
  /\ jobData = <<>>
  /\ pc = "idle"
  /\ totalRecords = 0
  /\ successCount = 0
  /\ failedCount = 0
  /\ processedCount = 0
  /\ batchNo = 0
  /\ outcome = "none"
  /\ err = <<>>
  /\ inflight = <<>>
  /\ cpc = "idle"
  /\ cstate = "none"
  /\ cancelResult = <<>>
  /\ lastCb = <<>>
  /\ started = <<>>
  /\ inserts = <<>>
  /\ callbacks = <<>>
  /\ claims = 0
  /\ unlinks = 0
  /\ cancels = 0
  /\ activeCancelled = FALSE
  /\ exited = FALSE

\* the callback is the one processJob passes: job.updateProgress and a log
Init == Uploaded /\ onProgress = "worker"

(***************************************************************************)
(* JobService.getJobStatus.                                                *)
(***************************************************************************)
\* a variant that reports a job waiting for its retry as failed
StatusOf_DelayedAsFailed(state) ==
  CASE state = "active" -> "processing"
    [] state = "completed" -> "completed"
    [] state \in {"failed", "delayed"} -> "failed"
    [] OTHER -> "pending"

\* the switch over job.getState()
StatusOf(state) ==
  CASE state = "active" -> "processing"
    [] state = "completed" -> "completed"
    [] state = "failed" -> "failed"
    [] OTHER -> "pending"

\* queue.getJob(jobId) finds the job
JobInQueue == qstate \notin {"none", "removed"}

\* the job as queue.getJob reads it
JobRead == [ progress |-> progress, returnvalue |-> returnvalue,
             failedReason |-> failedReason ]

\* the JobResult built from the state job.getState() returned and the job
\* queue.getJob read
JobResult(state, job) ==
  [ status |-> StatusOf(state),
    progress |-> IF job.progress = <<>> THEN JobProgress(0, 0, 0) ELSE job.progress[1],
    result |-> IF state = "completed" THEN job.returnvalue ELSE <<>>,
    error |-> IF state = "failed" THEN job.failedReason ELSE <<>> ]

\* the JobResult returned when nothing happens between the two reads of the
\* queue: <<>> is null
getJobStatus ==
  IF ~JobInQueue THEN <<>> ELSE << JobResult(qstate, JobRead) >>

\* what JobController.getJobStatus answers: 404 when the service returns null
ReportedStatus == IF getJobStatus = <<>> THEN "notfound" ELSE getJobStatus[1].status

\* the lists getAllJobs() merges when no status is given
getAllJobs_lists == {"waiting", "active", "completed", "failed"}

\* getAllJobs(): the entries returned for the job, none when it is in none
\* of the lists read
getAllJobs ==
  IF qstate \in getAllJobs_lists THEN << JobResult(qstate, JobRead) >> ELSE <<>>

(***************************************************************************)
(* Upload: UploadController.uploadFile counts the rows and enqueues.       *)
(***************************************************************************)
\* cleanupFile(filePath): unlink the file when it is there
cleanupFile ==
  /\ fileExists' = FALSE
  /\ unlinks' = unlinks + (IF fileExists THEN 1 ELSE 0)

(***************************************************************************)
(* ImportService.validateImport and ExcelService.validateExcel.            *)
(***************************************************************************)
\* how reading the uploaded file ends: the workbook is read and has a
\* sheet, readFile throws, or the workbook has no sheet
FileReads == {"ok", "unreadable", "nosheet"}

\* an entry of the error list; `columns` are the columns a message names
Error(message) == [ message |-> message, columns |-> <<>> ]

\* a variant whose catch block answers true
tableExists_TrueOnError(dbOk) == dbOk => tableThere

\* DataRepository.tableExists: the count query, false when it throws
tableExists(dbOk) == dbOk /\ tableThere

\* a variant that reports the first missing column only
MissingColumns_FirstOnly(requiredColumns, headers) ==
  LET missing == SelectSeq(requiredColumns,
                           LAMBDA col : ~(\E c \in DOMAIN headers : headers[c] = <<col>>))
  IN IF missing = <<>> THEN <<>> ELSE << Head(missing) >>

\* requiredColumns.filter((col) => !headers.includes(col))
MissingColumns(requiredColumns, headers) ==
  SelectSeq(requiredColumns,
            LAMBDA col : ~(\E c \in DOMAIN headers : headers[c] = <<col>>))

\* a variant of the library in which getRow does not add the row it returns
RowCountAfterGetRow_NotAdded(ws, r) == ws.rowCount

\* worksheet.rowCount after worksheet.getRow(r): getRow adds the row to the
\* sheet when the sheet has no row r, and rowCount is the number of the last
\* row of the sheet
RowCountAfterGetRow(ws, r) == Max(ws.rowCount, r)

\* ExcelService.validateExcel
validateExcel(ws, requiredColumns, skip, file) ==
  IF file = "unreadable"
  THEN [ isValid |-> FALSE, errors |-> << Error("Failed to read Excel file") >>,
         rowCount |-> 0 ]
  ELSE IF file = "nosheet"
  THEN [ isValid |-> FALSE, errors |-> << Error("Worksheet default not found") >>,
         rowCount |-> 0 ]
  ELSE LET headers == Headers(ws, skip)
           missingColumns == MissingColumns(requiredColumns, headers)
           columnErrors ==
             IF Len(requiredColumns) > 0 /\ Len(missingColumns) > 0
             THEN << [ message |-> "Missing required columns",
                       columns |-> missingColumns ] >>
             ELSE <<>>
           rowCount == RowCountAfterGetRow(ws, 1 + skip) - (1 + skip)
           rowErrors ==
             IF rowCount = 0
             THEN << Error("Excel file contains no data rows") >>
             ELSE <<>>
           errors == columnErrors \o rowErrors
       IN [ isValid |-> (Len(errors) = 0), errors |-> errors,
            rowCount |-> Max(0, rowCount) ]

\* ImportService.validateImport: `exists` is what tableExists answered,
\* colsOk whether getTableColumns answered or threw
validateImport(ws, skip, exists, colsOk, file) ==
  IF exists /\ ~colsOk
  THEN [ isValid |-> FALSE, errors |-> << Error("Validation error") >>,
         rowCount |-> 0 ]
  ELSE LET tableErrors == IF exists THEN <<>> ELSE << Error("Table does not exist") >>
           requiredColumns == IF exists THEN tableColumns ELSE <<>>
           excel == validateExcel(ws, requiredColumns, skip, file)
           errors == tableErrors \o (IF excel.isValid THEN <<>> ELSE excel.errors)
       IN [ isValid |-> (Len(errors) = 0), errors |-> errors,
            rowCount |-> excel.rowCount ]

\* a variant of the test that takes the boolean only
IsValidateOnly_BooleanOnly(flag) == flag = "<true>"

\* validateOnly === true || validateOnly === 'true': <true> is the boolean,
\* the other flags are the strings a form sends
IsValidateOnly(flag) == flag \in {"<true>", "true"}

\* validateImport, cleanupFile, and the answer: 200 or 400
ValidateAndAnswer ==
  /\ \E dbOk \in BOOLEAN, colsOk \in BOOLEAN, file \in FileReads :
       LET exists == tableExists(dbOk)
           result == validateImport(worksheet[1], skipRows, exists, colsOk, file)
       IN /\ validation' = << [ result |-> result, exists |-> exists,
                                colsOk |-> colsOk, file |-> file ] >>
          /\ response' = << IF result.isValid THEN 200 ELSE 400 >>
  /\ cleanupFile
  /\ UNCHANGED <<fileVars, jobVars, pc, importVars, outcome, err, inflight,
                 cancelVars, lastCb, jobData, obsVars, claims, exited,
                 readerVars, repoVars, queueVars, processVars, statusVars,
                 request, validateOnly, tableColumns>>

uploadFile ==
  /\ ~exited
  /\ request = "upload"
  /\ qstate = "none"
  /\ fileExists
  /\ IF IsValidateOnly(validateOnly)
     THEN \* if validation only, don't queue the job
          ValidateAndAnswer
     ELSE /\ \E readOk \in BOOLEAN :
               IF readOk
               THEN \* jobService.addJob: queue.add('import-excel', jobData, {jobId, ...})
                    /\ qstate' = "waiting"
                    /\ jobData' = << [ totalRecords |-> getRowCount(skipRows) ] >>
                    /\ response' = <<202>>
                    /\ UNCHANGED <<fileExists, unlinks>>
               ELSE \* getRowCount threw: the catch block cleans the file up, no job
                    /\ cleanupFile
                    /\ response' = <<500>>
                    /\ UNCHANGED <<qstate, jobData>>
          /\ UNCHANGED <<fileVars, attemptsMade, progress, failedReason, returnvalue,
                         delays, pc, importVars, outcome, err, inflight, cancelVars,
                         lastCb, obsVars, claims, exited,
                         readerVars, repoVars, queueVars, processVars, statusVars,
                 request, validateOnly, tableColumns,
                         validation>>

\* UploadController.validateFile: validateImport, cleanupFile, and the answer
validateFile ==
  /\ ~exited
  /\ request = "validate"
  /\ fileExists
  /\ ValidateAndAnswer

(***************************************************************************)
(* The queue and its worker (BullMQ, driven by queueOptions and            *)
(* workerOptions).                                                         *)
(***************************************************************************)
\* a variant in which the options addJob passes replace the defaults, which
\* leaves the job with a single attempt
JobAttempts_NoDefault == Min(1, queueConfig_attempts)

\* a variant that allows one attempt more than configured
JobAttempts_OneMore == queueConfig_attempts + 1

\* opts.attempts of the job: addJob passes no attempts, the default applies
JobAttempts == queueConfig_attempts

RECURSIVE Pow2(_)
Pow2(n) == IF n <= 0 THEN 1 ELSE 2 * Pow2(n - 1)

\* a variant with the same delay before every retry (type 'fixed')
Backoff_Fixed(made) == queueConfig_backoffDelay * Pow2(0)

\* backoff {type: 'exponential', delay}: delay * 2^(attemptsMade - 1)
Backoff(made) == queueConfig_backoffDelay * Pow2(made - 1)

\* the worker takes the waiting job and calls processJob
Claim ==
  /\ ~exited
  /\ qstate = "waiting"
  /\ pc = "idle"
  /\ qstate' = "active"
  /\ pc' = "start"
  /\ claims' = claims + 1
  /\ outcome' = "none"
  /\ UNCHANGED <<fileExists, fileVars, unitVars, attemptsMade, progress, failedReason,
                 returnvalue, delays, importVars, err, inflight, cancelVars,
                 lastCb, jobData, obsVars, unlinks,
                 exited>>

\* the backoff delay of a delayed job has elapsed
Promote ==
  /\ qstate = "delayed"
  /\ qstate' = "waiting"
  /\ UNCHANGED <<fileExists, fileVars, unitVars, attemptsMade, progress, failedReason,
                 returnvalue, delays, pc, importVars, outcome, err, inflight,
                 cancelVars, lastCb, jobData, obsVars, claims, unlinks,
                 exited>>

\* a variant of the queue that executes the updateProgress commands sent to
\* it in any order
ApplyProgress_AnyOrder ==
  /\ inflight # <<>>
  /\ \E i \in 1..Len(inflight) :
       /\ inflight' = SubSeq(inflight, 1, i - 1) \o SubSeq(inflight, i + 1, Len(inflight))
       /\ progress' = IF JobInQueue THEN <<inflight[i]>> ELSE progress
  /\ exited' = (exited \/ ~JobInQueue)
  /\ UNCHANGED <<fileExists, fileVars, unitVars, qstate, attemptsMade, failedReason,
                 returnvalue, delays, pc, importVars, outcome, err, cancelVars,
                 lastCb, jobData, obsVars, claims, unlinks>>

\* the queue executes the oldest updateProgress command: it sets the progress
\* of a job that exists and rejects the command for a job that was removed.
\* Nothing handles the rejected promise of job.updateProgress, so the
\* process's unhandledRejection handler runs: process.exit(1).
ApplyProgress ==
  /\ inflight # <<>>
  /\ inflight' = Tail(inflight)
  /\ progress' = IF JobInQueue THEN <<Head(inflight)>> ELSE progress
  /\ exited' = (exited \/ ~JobInQueue)
  /\ UNCHANGED <<fileExists, fileVars, unitVars, qstate, attemptsMade, failedReason,
                 returnvalue, delays, pc, importVars, outcome, err, cancelVars,
                 lastCb, jobData, obsVars, claims, unlinks>>

\* a variant in which the command that finishes the job overtakes the
\* updateProgress commands (sent later, or on another connection)
CanSettle_Overtaking == TRUE

\* job.updateProgress is not awaited: the command that finishes the job goes
\* out on the same connection after the updateProgress commands sent before
CanSettle == inflight = <<>>

\* processJob's promise has settled: the worker moves the job to completed,
\* or -- when it threw -- to delayed for a retry or to failed
Settle ==
  /\ ~exited
  /\ pc = "settle"
  /\ CanSettle
  /\ pc' = "idle"
  /\ IF qstate # "active"
     THEN \* the job was removed meanwhile: there is nothing to finish
          UNCHANGED <<qstate, attemptsMade, failedReason, returnvalue, delays>>
     ELSE IF outcome = "returned"
     THEN /\ qstate' = "completed"
          /\ returnvalue' = << [ successCount |-> successCount,
                                 failedCount |-> failedCount ] >>
          /\ UNCHANGED <<attemptsMade, failedReason, delays>>
     ELSE /\ attemptsMade' = attemptsMade + 1
          /\ IF attemptsMade + 1 < JobAttempts
             THEN /\ qstate' = "delayed"
                  /\ delays' = Append(delays, Backoff(attemptsMade + 1))
                  /\ UNCHANGED failedReason
             ELSE /\ qstate' = "failed"
                  /\ failedReason' = err
                  /\ UNCHANGED delays
          /\ UNCHANGED returnvalue
  /\ UNCHANGED <<fileExists, fileVars, unitVars, progress, importVars, outcome, err,
                 inflight, cancelVars, lastCb, jobData, obsVars, claims, unlinks,
                 exited>>

(***************************************************************************)
(* ImportWorker.processJob and ImportService.processImport.                *)
(***************************************************************************)
\* an exception leaves the try block of processJob: on to finally
Throw(msg) ==
  /\ err' = <<msg>>
  /\ outcome' = "threw"
  /\ pc' = "finally"

\* if (!fs.existsSync(filePath)) throw; else call processImport
PJ_checkFile ==
  /\ ~exited
  /\ pc = "start"
  /\ IF fileExists
     THEN /\ pc' = "tableExists"
          /\ UNCHANGED <<err, outcome>>
     ELSE Throw("File not found")
  /\ UNCHANGED <<fileExists, fileVars, unitVars, jobVars, importVars, inflight,
                 cancelVars, lastCb, jobData, obsVars, claims, unlinks,
                 exited>>

\* a variant of processImport that goes on whatever tableExists answers
PI_tableExists_Unchecked ==
  /\ ~exited
  /\ pc = "tableExists"
  /\ pc' = "getRowCount"
  /\ UNCHANGED <<fileExists, fileVars, unitVars, jobVars, importVars, inflight,
                 cancelVars, lastCb, jobData, obsVars, claims, unlinks,
                 err, outcome, exited>>

\* await dataRepository.tableExists(tableName)
PI_tableExists ==
  /\ ~exited
  /\ pc = "tableExists"
  /\ \E dbOk \in BOOLEAN :
       IF tableExists(dbOk)
       THEN /\ pc' = "getRowCount"
            /\ UNCHANGED <<err, outcome>>
       ELSE Throw("Table does not exist")
  /\ UNCHANGED <<fileExists, fileVars, unitVars, jobVars, importVars, inflight,
                 cancelVars, lastCb, jobData, obsVars, claims, unlinks,
                 exited>>

\* await excelService.getRowCount(filePath, undefined, 0), then the counters
PI_getRowCount ==
  /\ ~exited
  /\ pc = "getRowCount"
  /\ \E readOk \in BOOLEAN :
       IF readOk
       THEN /\ totalRecords' = getRowCount(processJob_skipRows)
            /\ successCount' = 0
            /\ failedCount' = 0
            /\ processedCount' = 0
            /\ batchNo' = 0
            /\ started' = <<>>
            /\ inserts' = <<>>
            /\ callbacks' = <<>>
            /\ pc' = "next"
            /\ UNCHANGED <<err, outcome>>
       ELSE /\ Throw("Failed to read the workbook")
            /\ UNCHANGED <<importVars, obsVars>>
  /\ UNCHANGED <<fileExists, fileVars, unitVars, jobVars, inflight, cancelVars, lastCb, jobData,
                 claims, unlinks,
                 exited>>

\* a variant of the loop that calls bulkInsertWithTVP without awaiting it
StartInsert_NotAwaited ==
  /\ started' = Append(started, batchNo)
  /\ batchNo' = batchNo + 1
  /\ pc' = "next"

\* the body of the loop begins: bulkInsertWithTVP(tableName, batch, ...) is
\* called and awaited
StartInsert ==
  /\ started' = Append(started, batchNo)
  /\ pc' = "insert"
  /\ UNCHANGED batchNo

\* for await (const batch of rowGenerator): the generator reads the workbook
\* on its first step and then yields the slices of the admitted rows
PI_nextBatch ==
  /\ ~exited
  /\ pc = "next"
  /\ \E readOk \in BOOLEAN :
       IF batchNo = 0 /\ ~readOk
       THEN /\ Throw("Failed to read the workbook")
            /\ UNCHANGED <<batchNo, started>>
       ELSE IF batchNo * batchSize < admitted
       THEN /\ StartInsert
            /\ UNCHANGED <<err, outcome>>
       ELSE \* the loop is over: return {successCount, failedCount, duration}
            /\ outcome' = "returned"
            /\ pc' = "finally"
            /\ UNCHANGED <<err, batchNo, started>>
  /\ UNCHANGED <<fileExists, fileVars, unitVars, jobVars, totalRecords, successCount,
                 failedCount, processedCount, inflight, cancelVars, lastCb,
                 jobData, inserts, callbacks, claims, unlinks,
                 exited>>

\* a variant of the repository that reports the rows of a full batch
bulkInsertWithTVP_FullBatch(len) == [ inserted |-> batchSize, failed |-> 0, errors |-> <<>> ]

\* DataRepository.bulkInsertWithTVP when request.bulk resolves
bulkInsertWithTVP(len) == [ inserted |-> len, failed |-> 0, errors |-> <<>> ]

\* a variant of the catch block that leaves the batch uncounted
CatchBatch_NotCounted ==
  /\ UNCHANGED failedCount
  /\ batchNo' = batchNo + 1
  /\ pc' = "next"
  /\ UNCHANGED <<err, outcome>>

\* a variant of the catch block that throws the error on
CatchBatch_Rethrow ==
  /\ failedCount' = failedCount + BatchLength(batchNo)
  /\ batchNo' = batchNo + 1
  /\ Throw("Bulk insert failed")

\* catch (error) { failedCount += batch.length }, and the loop goes on
CatchBatch ==
  /\ failedCount' = failedCount + BatchLength(batchNo)
  /\ batchNo' = batchNo + 1
  /\ pc' = "next"
  /\ UNCHANGED <<err, outcome>>

\* the body of the loop for one batch, from the point where the awaited
\* bulkInsertWithTVP resolves or throws
PI_insert ==
  /\ ~exited
  /\ pc = "insert"
  /\ \E ok \in BOOLEAN :
       /\ inserts' = Append(inserts, [ batch |-> batchNo, ok |-> ok ])
       /\ IF ok
          THEN LET len == BatchLength(batchNo)
                   result == bulkInsertWithTVP(len)
                   p == JobProgress(totalRecords, processedCount + len,
                                    failedCount + result.failed)
               IN /\ successCount' = successCount + result.inserted
                  /\ processedCount' = processedCount + len
                  /\ IF onProgress = "worker"
                     THEN \* onProgress(progress): job.updateProgress(progress)
                          /\ failedCount' = failedCount + result.failed
                          /\ inflight' = Append(inflight, p)
                     ELSE \* onProgress(progress) throws inside the try block:
                          \* the catch block counts the batch as failed
                          /\ failedCount' = failedCount + result.failed + BatchLength(batchNo)
                          /\ UNCHANGED inflight
                  /\ lastCb' = << [ progress |-> p,
                                    successCount |-> successCount + result.inserted,
                                    failedCount |-> failedCount + result.failed ] >>
                  /\ callbacks' = Append(callbacks, batchNo)
                  /\ batchNo' = batchNo + 1
                  /\ pc' = "next"
                  /\ UNCHANGED <<err, outcome>>
          ELSE /\ CatchBatch
               /\ UNCHANGED <<successCount, processedCount, inflight, lastCb,
                              callbacks>>
  /\ UNCHANGED <<fileExists, fileVars, unitVars, jobVars, jobData, totalRecords, started,
                 cancelVars, claims, unlinks,
                 exited>>

\* a variant of processJob that removes the file of a successful attempt only
PJ_finally_OnSuccessOnly ==
  /\ ~exited
  /\ pc = "finally"
  /\ IF outcome = "returned" THEN cleanupFile ELSE UNCHANGED <<fileExists, unlinks>>
  /\ pc' = "settle"
  /\ UNCHANGED <<fileVars, unitVars, jobVars, importVars, outcome, err, inflight,
                 cancelVars, lastCb, jobData, obsVars, claims,
                 exited>>

\* finally { cleanupFile(filePath) }
PJ_finally ==
  /\ ~exited
  /\ pc = "finally"
  /\ cleanupFile
  /\ pc' = "settle"
  /\ UNCHANGED <<fileVars, unitVars, jobVars, importVars, outcome, err, inflight,
                 cancelVars, lastCb, jobData, obsVars, claims,
                 exited>>

(***************************************************************************)
(* JobService.cancelJob.                                                   *)
(***************************************************************************)
\* a variant that removes the job in whatever state it is
Cancellable_AnyState(state) == TRUE

\* if (state === 'active' || state === 'waiting')
Cancellable(state) == state \in {"active", "waiting"}

\* const job = await this.queue.getJob(jobId); if (!job) return false
cancel_getJob ==
  /\ ~exited
  /\ cpc = "idle"
  /\ cancels < MaxCancels
  /\ cancels' = cancels + 1
  /\ IF JobInQueue
     THEN /\ cpc' = "getState"
          /\ cancelResult' = <<>>
          /\ UNCHANGED cstate
     ELSE /\ cpc' = "idle"
          /\ cancelResult' = <<FALSE>>
          /\ cstate' = "none"
  /\ UNCHANGED <<fileExists, fileVars, unitVars, jobVars, pc, importVars, outcome, err,
                 inflight, lastCb, jobData, obsVars, claims, unlinks, activeCancelled,
                 exited>>

\* const state = await job.getState(), and the test on it
cancel_getState ==
  /\ ~exited
  /\ cpc = "getState"
  /\ cstate' = IF JobInQueue THEN qstate ELSE "unknown"
  /\ IF Cancellable(cstate')
     THEN /\ cpc' = "remove"
          /\ UNCHANGED cancelResult
     ELSE /\ cpc' = "idle"
          /\ cancelResult' = <<FALSE>>
  /\ UNCHANGED <<fileExists, fileVars, unitVars, jobVars, pc, importVars, outcome, err,
                 inflight, lastCb, jobData, obsVars, claims, unlinks, cancels, activeCancelled,
                 exited>>

\* await job.remove(); return true -- or the catch block: return false.
\* The queue refuses to remove a job that a worker holds locked; the lock of
\* an active job is held unless it has lapsed.
cancel_remove ==
  /\ ~exited
  /\ cpc = "remove"
  /\ cpc' = "idle"
  /\ \E locked \in BOOLEAN :
       IF qstate = "active" /\ locked
       THEN /\ cancelResult' = <<FALSE>>
            /\ UNCHANGED <<qstate, activeCancelled>>
       ELSE /\ cancelResult' = <<TRUE>>
            /\ qstate' = "removed"
            /\ activeCancelled' = (activeCancelled \/ qstate = "active")
  /\ UNCHANGED <<fileExists, fileVars, unitVars, attemptsMade, progress, failedReason,
                 returnvalue, delays, pc, importVars, outcome, err, inflight,
                 cstate, lastCb, jobData, obsVars, claims, unlinks, cancels,
                 exited>>

Next ==
  \/ uploadFile
  \/ Claim
  \/ Promote
  \/ ApplyProgress
  \/ Settle
  \/ PJ_checkFile
  \/ PI_tableExists
  \/ PI_getRowCount
  \/ PI_nextBatch
  \/ PI_insert
  \/ PJ_finally
  \/ cancel_getJob
  \/ cancel_getState
  \/ cancel_remove

Spec == Init /\ [][Next]_vars

\* the queue, the worker and the event loop go on: a job that can be taken
\* is taken, a delay elapses, a command sent is executed, and a callback
\* that can continue does; only the client's requests are left free
Fairness ==
  /\ WF_vars(Claim)
  /\ WF_vars(Promote)
  /\ WF_vars(ApplyProgress)
  /\ WF_vars(Settle)
  /\ WF_vars(PJ_checkFile)
  /\ WF_vars(PI_tableExists)
  /\ WF_vars(PI_getRowCount)
  /\ WF_vars(PI_nextBatch)
  /\ WF_vars(PI_insert)
  /\ WF_vars(PJ_finally)
  /\ WF_vars(cancel_getState)
  /\ WF_vars(cancel_remove)

FairSpec == Init /\ [][Next]_vars /\ Fairness

(***************************************************************************)
(* A status request beside the job: getJobStatus reads the queue twice,    *)
(* the job first and its state after.                                      *)
(***************************************************************************)
\* const job = await this.queue.getJob(jobId); if (!job?.id) return null
GS_getJob ==
  /\ ~exited
  /\ spc = "idle"
  /\ IF JobInQueue
     THEN /\ snapshot' = << JobRead >>
          /\ spc' = "getState"
          /\ UNCHANGED statusResult
     ELSE /\ statusResult' = << [ answer |-> <<>>, state |-> "none" ] >>
          /\ spc' = "done"
          /\ UNCHANGED snapshot
  /\ UNCHANGED <<mainVars, readerVars, validateVars, repoVars, queueVars, processVars>>

\* const state = await job.getState(), and the JobResult; the state of a job
\* that is no longer in the queue is 'unknown'
GS_getState ==
  /\ ~exited
  /\ spc = "getState"
  /\ LET state == IF JobInQueue THEN qstate ELSE "unknown"
     IN statusResult' = << [ answer |-> << JobResult(state, snapshot[1]) >>,
                             state |-> state ] >>
  /\ spc' = "done"
  /\ UNCHANGED <<mainVars, readerVars, validateVars, repoVars, queueVars, processVars,
                 snapshot>>

StatusNext == Next \/ GS_getJob \/ GS_getState

StatusSpec == Init /\ [][StatusNext]_vars

\* processImport called with any callback: the worker's or one that throws
ImportInit == Uploaded /\ onProgress \in {"worker", "throws"}

ImportSpec == ImportInit /\ [][Next]_vars

(***************************************************************************)
(* The requests that validate: an upload with validateOnly, and the        *)
(* validate route, on sheets with a first row of any shape.                *)
(***************************************************************************)
ValidateSheets ==
  { [ rowCount |-> n, first |-> f, probeAt |-> 0, probe |-> BlankRow, blankAt |-> {} ] :
      n \in 0..MaxSmallRows, f \in Rows }

TableColumnChoices == { <<"A">>, <<"A", "B">>, <<"C", "A">>, <<"B", "C", "D">> }

ValidateInit ==
  /\ JobIdle
  /\ RepoIdle
  /\ QueueIdle
  /\ ProcessIdle
  /\ StatusIdle
  /\ fileExists = TRUE
  /\ worksheet \in { <<ws>> : ws \in ValidateSheets }
  /\ sheetRows = worksheet[1].rowCount - 1
  /\ admitted = Len(Collect(worksheet[1], 0))
  /\ tableThere \in BOOLEAN
  /\ skipRows \in 0..MaxSkip
  /\ onProgress = "worker"
  /\ srSkipRows = 0
  /\ srpc = "idle"
  /\ batch = <<>>
  /\ srIndex = 0
  /\ emitted = <<>>
  /\ request \in {"upload", "validate"}
  /\ validateOnly \in (IF request = "upload" THEN {"<true>", "true", "false"}
                                             ELSE {"undefined"})
  /\ tableColumns \in TableColumnChoices
  /\ validation = <<>>
  /\ response = <<>>

ValidateNext == uploadFile \/ validateFile

ValidateSpec == ValidateInit /\ [][ValidateNext]_vars

\* the two callers of tableExists side by side: a validation request, or an
\* upload whose job the worker then processes; one sheet layout is enough
\* for the job
ExistsInit ==
  /\ ValidateInit
  /\ tableColumns = <<"A">>
  /\ skipRows = 0

ExistsNext == Next \/ validateFile

ExistsSpec == ExistsInit /\ [][ExistsNext]_vars

(***************************************************************************)
(* DataRepository: inferSqlType, bulkInsertWithTVP and bulkInsert.  A      *)
(* value is what inferSqlType looks at: its type, whether a number is      *)
(* integral, and of a string its length, whether it starts with            *)
(* dddd-dd-dd and whether new Date(value) is a valid date.                 *)
(***************************************************************************)
Value(kind, integral, length, startsYMD, parses) ==
  [ kind |-> kind, integral |-> integral, length |-> length,
    startsYMD |-> startsYMD, parses |-> parses ]

Null == Value("null", FALSE, 0, FALSE, FALSE)
Undefined == Value("undefined", FALSE, 0, FALSE, FALSE)
Integer == Value("number", TRUE, 0, FALSE, FALSE)
Fraction == Value("number", FALSE, 0, FALSE, FALSE)
Boolean == Value("boolean", FALSE, 0, FALSE, FALSE)
DateValue == Value("Date", FALSE, 0, FALSE, FALSE)
StringValue(length, startsYMD, parses) == Value("string", FALSE, length, startsYMD, parses)

\* the lengths around the two thresholds; a string that starts with a date
\* has ten characters or more
StringLengths == {0, 10, 255, 256, 4000, 4001}

StringValues ==
  { StringValue(n, ymd, ok) : n \in StringLengths \ {0}, ymd \in BOOLEAN, ok \in BOOLEAN }
    \cup { StringValue(0, FALSE, FALSE) }

SampleValues ==
  {Null, Undefined, Integer, Fraction, Boolean, DateValue} \cup StringValues

\* a variant that takes a string of 255 characters for a long one
inferSqlType_LongFrom255(value) ==
  IF value.kind \in {"null", "undefined"} THEN "NVarChar(MAX)"
  ELSE IF value.kind = "number"
  THEN (IF value.integral THEN "Int" ELSE "Decimal(18,2)")
  ELSE IF value.kind = "boolean" THEN "Bit"
  ELSE IF value.kind = "Date" THEN "DateTime"
  ELSE IF value.kind = "string"
  THEN IF value.parses /\ value.startsYMD THEN "DateTime"
       ELSE IF value.length > 4000 THEN "NVarChar(MAX)"
       ELSE IF value.length >= 255 THEN "NVarChar(4000)" ELSE "NVarChar(255)"
  ELSE "NVarChar(MAX)"

\* DataRepository.inferSqlType
inferSqlType(value) ==
  IF value.kind \in {"null", "undefined"} THEN "NVarChar(MAX)"
  ELSE IF value.kind = "number"
  THEN (IF value.integral THEN "Int" ELSE "Decimal(18,2)")
  ELSE IF value.kind = "boolean" THEN "Bit"
  ELSE IF value.kind = "Date" THEN "DateTime"
  ELSE IF value.kind = "string"
  THEN IF value.parses /\ value.startsYMD THEN "DateTime"
       ELSE IF value.length > 4000 THEN "NVarChar(MAX)"
       ELSE IF value.length > 255 THEN "NVarChar(4000)" ELSE "NVarChar(255)"
  ELSE "NVarChar(MAX)"

\* the order in which the reader sets the keys of a record
KeyOrder == <<"a", "b", "c">>

\* Object.keys(record)
Keys(record) == SelectSeq(KeyOrder, LAMBDA k : k \in DOMAIN record)

\* record[col]
Get(record, col) == IF col \in DOMAIN record THEN record[col] ELSE Undefined

\* columnMapping?.[col] || col
Mapped(mapping, col) ==
  IF mapping # <<>> /\ col \in DOMAIN mapping[1] /\ mapping[1][col] # ""
  THEN mapping[1][col]
  ELSE col

\* a variant that takes the sample from the first record that has a value
\* under the key
SampleValue_FirstWithValue(recs, col) ==
  LET having == SelectSeq(recs, LAMBDA r : Get(r, col).kind \notin {"null", "undefined"})
  IN IF having = <<>> THEN Get(recs[1], col) ELSE Get(having[1], col)

\* sampleRecord[col], where sampleRecord = records[0]
SampleValue(recs, col) == Get(recs[1], col)

\* table.columns after the loop over the first record's keys
TableColumns(recs, mapping) ==
  LET columns == Keys(recs[1])
  IN [ k \in 1..Len(columns) |->
         [ name |-> Mapped(mapping, columns[k]),
           type |-> inferSqlType(SampleValue(recs, columns[k])),
           nullable |-> TRUE ] ]

\* table.rows after the loop over the records
TableRows(recs) ==
  LET columns == Keys(recs[1])
  IN [ r \in 1..Len(recs) |-> [ k \in 1..Len(columns) |-> Get(recs[r], columns[k]) ] ]

\* bulkInsertWithTVP up to the call of request.bulk
TVP_build ==
  /\ method = "tvp"
  /\ dpc = "start"
  /\ table' = << [ columns |-> TableColumns(records, columnMapping),
                   rows |-> TableRows(records) ] >>
  /\ dpc' = "bulk"
  /\ UNCHANGED <<mainVars, readerVars, validateVars, queueVars, processVars, statusVars,
                 records, columnMapping, method,
                 transaction, rowIndex, inserted, insertErrors, attempts,
                 dbResult, dbError>>

\* a variant that answers with a result when the bulk copy is rejected
TVP_bulk_ResultOnError ==
  /\ method = "tvp"
  /\ dpc = "bulk"
  /\ \E message \in {"ok", "Conversion failed"} :
       /\ attempts' = Append(attempts, [ row |-> 0, message |-> message ])
       /\ dbResult' = << [ inserted |-> 0, failed |-> Len(records), errors |-> <<>> ] >>
       /\ dpc' = "returned"
       /\ UNCHANGED dbError
  /\ UNCHANGED <<mainVars, readerVars, validateVars, queueVars, processVars, statusVars,
                 records, columnMapping, method,
                 table, transaction, rowIndex, inserted, insertErrors>>

\* await request.bulk(table): the engine takes all the rows, or rejects the
\* bulk copy and the error is rethrown
TVP_bulk ==
  /\ method = "tvp"
  /\ dpc = "bulk"
  /\ \E message \in {"ok", "Conversion failed"} :
       /\ attempts' = Append(attempts, [ row |-> 0, message |-> message ])
       /\ IF message = "ok"
          THEN /\ dbResult' = << bulkInsertWithTVP(Len(records)) >>
               /\ dpc' = "returned"
               /\ UNCHANGED dbError
          ELSE /\ dbError' = << message >>
               /\ dpc' = "threw"
               /\ UNCHANGED dbResult
  /\ UNCHANGED <<mainVars, readerVars, validateVars, queueVars, processVars, statusVars,
                 records, columnMapping, method,
                 table, transaction, rowIndex, inserted, insertErrors>>

\* await transaction.begin(); on an error the catch block rolls back and
\* rethrows
BI_begin ==
  /\ method = "rows"
  /\ dpc = "start"
  /\ \E ok \in BOOLEAN :
       IF ok
       THEN /\ transaction' = "begun"
            /\ dpc' = "loop"
            /\ UNCHANGED dbError
       ELSE /\ dbError' = << "Failed to connect" >>
            /\ dpc' = "threw"
            /\ UNCHANGED transaction
  /\ UNCHANGED <<mainVars, readerVars, validateVars, queueVars, processVars, statusVars,
                 records, columnMapping, method,
                 table, rowIndex, inserted, insertErrors, attempts, dbResult>>

\* what the engine can answer to the INSERT of one row: it takes the row,
\* rejects the statement alone, or fails with an error that ends the batch
\* and rolls the open transaction back; in a transaction that was rolled
\* back every later request is rejected
RowOutcomes(state) ==
  IF state = "aborted"
  THEN {"Transaction has been aborted"}
  ELSE {"ok", "Violation of constraint", "Conversion failed"}

\* the errors after which the engine has rolled the transaction back
Aborts(message) == message = "Conversion failed"

\* the loop goes on with the next row after the catch
AfterFailure(i) == i + 1

\* errors.push({ row: i + 1, ... })
RowNumber(i) == i + 1

\* one round of bulkInsert's loop: the INSERT of records[i], counted when it
\* resolves, recorded in errors when it rejects
BI_row ==
  /\ method = "rows"
  /\ dpc = "loop"
  /\ rowIndex < Len(records)
  /\ \E message \in RowOutcomes(transaction) :
       /\ attempts' = Append(attempts, [ row |-> rowIndex + 1, message |-> message ])
       /\ IF message = "ok"
          THEN /\ inserted' = inserted + 1
               /\ rowIndex' = rowIndex + 1
               /\ UNCHANGED <<insertErrors, transaction>>
          ELSE /\ insertErrors' = Append(insertErrors,
                                         [ row |-> RowNumber(rowIndex), error |-> message ])
               /\ rowIndex' = AfterFailure(rowIndex)
               /\ transaction' = IF Aborts(message) THEN "aborted" ELSE transaction
               /\ UNCHANGED inserted
  /\ UNCHANGED <<mainVars, readerVars, validateVars, queueVars, processVars, statusVars,
                 records, columnMapping, method,
                 dpc, table, dbResult, dbError>>

\* await transaction.commit() and the return; the commit of a transaction
\* that was rolled back is rejected, and the catch block rethrows
BI_commit ==
  /\ method = "rows"
  /\ dpc = "loop"
  /\ rowIndex >= Len(records)
  /\ IF transaction = "aborted"
     THEN /\ dbError' = << "Transaction has been aborted" >>
          /\ dpc' = "threw"
          /\ UNCHANGED <<transaction, dbResult>>
     ELSE /\ transaction' = "committed"
          /\ dbResult' = << [ inserted |-> inserted, failed |-> Len(insertErrors),
                              errors |-> insertErrors ] >>
          /\ dpc' = "returned"
          /\ UNCHANGED dbError
  /\ UNCHANGED <<mainVars, readerVars, validateVars, queueVars, processVars, statusVars,
                 records, columnMapping, method,
                 table, rowIndex, inserted, insertErrors, attempts>>

\* a value that appears under the key "c" only
Extra == StringValue(7, FALSE, FALSE)

\* first records: every sample value under "a", with or without a null "b"
FirstRecords ==
  { [ a |-> v ] : v \in SampleValues } \cup { [ a |-> v, b |-> Null ] : v \in SampleValues }

\* later records: another type under "a", no "a" at all, a key that the
\* first record does not have
OtherRecords ==
  { [ a |-> StringValue(256, FALSE, FALSE) ],
    [ b |-> Boolean ],
    [ a |-> Integer, c |-> Extra ] }

RECURSIVE Batches(_)
\* the batches of n records: a first record and n - 1 later ones
Batches(n) ==
  IF n = 1
  THEN { <<f>> : f \in FirstRecords }
  ELSE { Append(b, o) : b \in Batches(n - 1), o \in OtherRecords }

ColumnMappings == { <<>>, << [ a |-> "A1", b |-> "" ] >> }

RepoInit ==
  /\ MainIdle
  /\ ReaderIdle
  /\ ValidateIdle
  /\ QueueIdle
  /\ ProcessIdle
  /\ StatusIdle
  /\ records \in UNION { Batches(n) : n \in 1..MaxRecords }
  /\ columnMapping \in ColumnMappings
  /\ method \in {"tvp", "rows"}
  /\ dpc = "start"
  /\ table = <<>>
  /\ transaction = "none"
  /\ rowIndex = 0
  /\ inserted = 0
  /\ insertErrors = <<>>
  /\ attempts = <<>>
  /\ dbResult = <<>>
  /\ dbError = <<>>

RepoNext == TVP_build \/ TVP_bulk \/ BI_begin \/ BI_row \/ BI_commit

RepoSpec == RepoInit /\ [][RepoNext]_vars

(***************************************************************************)
(* Retention: the jobs the queue holds after they have finished.  A        *)
(* removeOnComplete / removeOnFail option is false (keep every job) or     *)
(* {age, count}; count -1 stands for no count.                             *)
(***************************************************************************)
KeepEvery == [ kind |-> "false", age |-> 0, count |-> -1 ]
KeepJobs(age, count) == [ kind |-> "limits", age |-> age, count |-> count ]

\* queueOptions.defaultJobOptions
defaultJobOptions ==
  [ removeOnComplete |-> KeepJobs(86400, 100),
    removeOnFail |-> KeepJobs(604800, -1) ]

\* the options JobService.addJob passes to queue.add with every job
addJob_opts == [ removeOnComplete |-> KeepEvery, removeOnFail |-> KeepEvery ]

\* the options of a job: queue.add spreads the job's own options over the
\* defaults, { ...defaultJobOptions, ...opts }
JobOpts ==
  [ k \in DOMAIN defaultJobOptions \cup DOMAIN addJob_opts |->
      IF k \in DOMAIN addJob_opts THEN addJob_opts[k] ELSE defaultJobOptions[k] ]

\* the size of a finished set after a job entered it under the job's option
Retained(n, keep) ==
  IF keep.kind = "false" \/ keep.count < 0 THEN n ELSE Min(n, keep.count)

\* JobService.addJob
RQ_addJob ==
  /\ waitingJobs + completedJobs + failedJobs < MaxJobs
  /\ waitingJobs' = waitingJobs + 1
  /\ UNCHANGED <<mainVars, readerVars, validateVars, repoVars, processVars, statusVars,
                 completedJobs, failedJobs>>

\* a worker completes a job
RQ_complete ==
  /\ waitingJobs > 0
  /\ waitingJobs' = waitingJobs - 1
  /\ completedJobs' = Retained(completedJobs + 1, JobOpts.removeOnComplete)
  /\ UNCHANGED <<mainVars, readerVars, validateVars, repoVars, processVars, statusVars, failedJobs>>

\* the last attempt of a job throws
RQ_fail ==
  /\ waitingJobs > 0
  /\ waitingJobs' = waitingJobs - 1
  /\ failedJobs' = Retained(failedJobs + 1, JobOpts.removeOnFail)
  /\ UNCHANGED <<mainVars, readerVars, validateVars, repoVars, processVars, statusVars, completedJobs>>

RetentionInit ==
  /\ MainIdle
  /\ ReaderIdle
  /\ ValidateIdle
  /\ RepoIdle
  /\ ProcessIdle
  /\ StatusIdle
  /\ QueueIdle

RetentionNext == RQ_addJob \/ RQ_complete \/ RQ_fail

RetentionSpec == RetentionInit /\ [][RetentionNext]_vars

(***************************************************************************)
(* Properties.                                                             *)
(***************************************************************************)

\* C1: in every JobProgress passed to the progress callback, processed equals
\* the rows inserted so far plus the rows counted as failed so far.
C1_ProcessedIsInsertedPlusFailed ==
  lastCb # <<>> =>
    lastCb[1].progress.processed = lastCb[1].successCount + lastCb[1].failedCount

\* C2: a job reaches a terminal state (completed or failed) at most once --
\* once terminal, its state never changes to another state of the queue, it
\* can only be removed -- and no progress update is applied to its persisted
\* JobProgress after it has reached the terminal state.
C2_TerminalOnceNoLateProgress ==
  [][ (qstate \in Terminal) =>
        (qstate' \in {qstate, "removed"} /\ progress' = progress) ]_vars

\* C2 witness: a job is completed with progress updates applied before that.
C2_Witness ==
  /\ qstate = "completed"
  /\ progress # <<>>
  /\ progress[1].processed = admitted
  /\ admitted > batchSize

\* the job's outcome is final: it is completed, failed or removed, or the
\* attempt that has just ended returned or was the last one allowed
Concluded ==
  \/ qstate \in Terminal \cup {"removed"}
  \/ pc = "settle" /\ (outcome = "returned" \/ attemptsMade + 1 >= JobAttempts)

\* C3: for every job a worker processes the source file is deleted exactly
\* once, and only after the job has concluded (completed or failed).
C3_DeletedOnceAfterConclusion ==
  claims >= 1 =>
    /\ unlinks <= 1
    /\ unlinks = 1 => Concluded
    /\ qstate \in Terminal => unlinks = 1

\* an attempt of a job still in the queue ends in this step
AttemptEnds == pc = "settle" /\ pc' = "idle" /\ qstate = "active"

\* C4: a job whose attempt throws is retried while fewer than 3 attempts have
\* been made; no job is attempted more than 3 times; a job becomes failed
\* exactly when its 3rd attempt throws, and the failure reason recorded is
\* the error message of that last attempt.
C4_RetryUpToThreeAttempts ==
  /\ [](claims <= 3 /\ attemptsMade <= 3)
  /\ [](qstate = "failed" => attemptsMade = 3 /\ claims = 3 /\ failedReason = err)
  /\ [][ (AttemptEnds /\ outcome = "threw") =>
           ( /\ attemptsMade' = attemptsMade + 1
             /\ attemptsMade' < 3 => qstate' = "delayed"
             /\ attemptsMade' = 3 => (qstate' = "failed" /\ failedReason' = err) )
     ]_vars
  /\ [][ (qstate' = "failed" /\ qstate # "failed") =>
           (AttemptEnds /\ outcome = "threw" /\ attemptsMade = 2) ]_vars
  /\ [][ (qstate = "delayed") => (qstate' \in {"delayed", "waiting", "removed"})
     ]_vars

\* C4 witness: the third attempt threw and the job is failed with its message.
C4_Witness ==
  /\ qstate = "failed"
  /\ claims = 3
  /\ Len(delays) = 2
  /\ failedReason = <<"File not found">>

\* the changes of the reported status the state machine of the spec allows;
\* a removed job is reported as not found
StatusEdges ==
  { <<"notfound", "pending">>, <<"pending", "processing">>,
    <<"processing", "completed">>, <<"processing", "failed">>,
    <<"pending", "notfound">>, <<"processing", "notfound">> }

\* C5 as stated: the reported status only changes along pending ->
\* processing, processing -> completed, processing -> failed, plus
\* cancellation from pending or processing; never processing -> pending.
C5_StatusStateMachine ==
  [][ ( \/ ReportedStatus' = ReportedStatus
        \/ <<ReportedStatus, ReportedStatus'>> \in StatusEdges )
    ]_vars

\* C5 as amended: the status changes along pending -> processing, processing
\* -> completed, processing -> failed and also processing -> pending (an
\* attempt that threw with attempts left waits for its retry); the job stops
\* being reported only when a cancelJob call that read it as waiting or active
\* removes it, and otherwise it never leaves completed or failed.
C5_StatusStateMachineWithRetry ==
  [][ ( \/ ReportedStatus' = ReportedStatus
        \/ <<ReportedStatus, ReportedStatus'>> \in
             { <<"pending", "processing">>, <<"processing", "completed">>,
               <<"processing", "failed">>, <<"processing", "pending">> }
        \/ ReportedStatus = "notfound" /\ ReportedStatus' = "pending" /\ qstate = "none"
        \/ /\ ReportedStatus' = "notfound"
           /\ cpc = "remove" /\ cstate \in {"waiting", "active"}
           /\ cancelResult' = <<TRUE>> )
    ]_vars

\* C5 witness: the job is reported pending again after an attempt that threw.
C5_Witness ==
  /\ ReportedStatus = "pending"
  /\ qstate = "delayed"
  /\ claims = 1
  /\ attemptsMade = 1

\* C6 as stated: a job moves to processing at most once, and exactly once if
\* it ever reaches completed or failed.
C6_ClaimedOnce ==
  /\ claims <= 1
  /\ qstate \in Terminal => claims = 1

\* C6 as amended: a job moves to processing at most 3 times, once per
\* attempt, and at least once if it ever reaches completed or failed.
C6_ClaimedOncePerAttempt ==
  /\ claims <= 3
  /\ claims <= attemptsMade + 1
  /\ qstate \in Terminal => claims >= 1

\* C6 witness: a job that reached failed was claimed for each of its attempts.
C6_Witness ==
  /\ qstate = "failed"
  /\ claims = 3

\* a cancelJob call returns in this step
CancelReturns == cpc' = "idle" /\ (cpc # "idle" \/ cancels' # cancels)

\* C7: cancelJob called for a job whose reported status is pending returns
\* true and removes the job from the queue, and no worker claims the job
\* afterwards.
C7_PendingJobIsCancelled ==
  [][ /\ (CancelReturns /\ ReportedStatus = "pending") =>
           (cancelResult' = <<TRUE>> /\ qstate' = "removed")
      /\ (qstate = "removed") => (qstate' = "removed" /\ claims' = claims)
    ]_vars

\* C8: after cancelJob succeeded, status queries report the status cancelled.
C8_CancelledIsReported ==
  cpc = "idle" /\ cancelResult = <<TRUE>> => ReportedStatus = "cancelled"

C10_NoInsertAfterCancel ==
  [][ (activeCancelled /\ qstate = "removed") => ~(pc = "next" /\ pc' = "insert")
    ]_vars



(***************************************************************************)
(* The import loop of processImport.                                       *)
(***************************************************************************)
\* a bulk insert settles in this step, and it threw
InsertThrew == Len(inserts') = Len(inserts) + 1 /\ ~inserts'[Len(inserts')].ok

\* C11: when the bulk insert of a batch throws, processImport does not
\* abort: the length of the whole batch is added to failedCount,
\* successCount stays as it is, and the loop goes on to the next batch.
C11_FailedBatchIsCountedAndSkipped ==
  [][ InsertThrew
        => ( /\ failedCount' = failedCount + BatchLength(batchNo)
             /\ successCount' = successCount
             /\ outcome' = "none"
             /\ pc' = "next"
             /\ batchNo' = batchNo + 1 ) ]_vars

\* the first batch failed and the insert of the second one, a short batch,
\* is under way
C11_Witness ==
  /\ pc = "insert"
  /\ batchNo = 1
  /\ inserts = << [ batch |-> 0, ok |-> FALSE ] >>
  /\ failedCount = batchSize
  /\ successCount = 0
  /\ BatchLength(1) < batchSize

\* C12: processImport calls the progress callback exactly once after every
\* batch the reader emits, whether the insert of the batch succeeded or
\* failed: the batches after which it was called are the batches whose
\* insert has settled, in the same order.
C12_CallbackAfterEveryBatch ==
  /\ Len(callbacks) = Len(inserts)
  /\ \A i \in 1..Len(inserts) : callbacks[i] = inserts[i].batch

(***************************************************************************)
(* The checks processImport makes before the loop.                         *)
(***************************************************************************)
\* processImport throws in this step
ImportThrows == outcome = "none" /\ outcome' = "threw" /\ pc # "start"

\* C13: when the target table does not exist, processImport throws 'Table
\* does not exist' at the existence check: the row count is never computed,
\* no batch is read, no bulk insert is started, the progress callback is
\* never called, and the job is never completed: once its attempts are used
\* up it is failed.
C13_MissingTableFailsFast ==
  /\ [](~tableThere
          => ( /\ pc \notin {"getRowCount", "next", "insert"}
               /\ started = <<>>
               /\ inserts = <<>>
               /\ callbacks = <<>>
               /\ progress = <<>>
               /\ qstate # "completed"
               /\ (attemptsMade = JobAttempts => qstate \in {"failed", "removed"}) ))
  /\ [][ (~tableThere /\ ImportThrows)
           => (pc = "tableExists" /\ err' = <<"Table does not exist">>) ]_vars

\* the table is missing, processImport has thrown so, and the job has ended
\* failed
C13_Witness ==
  /\ ~tableThere
  /\ qstate = "failed"
  /\ claims = JobAttempts
  /\ delays # <<>>

\* C14 as stated: once the table check and the row count have succeeded,
\* processImport never throws, whatever fails afterwards (reading the file
\* for streaming, any batch insert): it throws only at those two checks.
C14_NoThrowAfterRowCount ==
  [][ ImportThrows => (pc \in {"tableExists", "getRowCount"}) ]_vars

\* C14, amended: once the table check and the row count have succeeded, no
\* failing bulk insert makes processImport throw; the only error that still
\* escapes is the reader's, thrown on the first step of the loop, when the
\* workbook is read for streaming and before any bulk insert is started.
C14_NoThrowOnceBatchesFlow ==
  [][ ImportThrows
        => ( \/ pc \in {"tableExists", "getRowCount"}
             \/ ( /\ pc = "next"
                  /\ batchNo = 0
                  /\ started = <<>>
                  /\ err' = <<"Failed to read the workbook">> ) ) ]_vars

\* every bulk insert of a two-batch file threw and processImport returned
C14_Witness ==
  /\ outcome = "returned"
  /\ Len(inserts) = 2
  /\ \A i \in 1..Len(inserts) : ~inserts[i].ok
  /\ failedCount = admitted

(***************************************************************************)
(* What the job records.                                                   *)
(***************************************************************************)
\* every bulk insert of the attempt has resolved
EveryInsertSucceeded == \A i \in 1..Len(inserts) : inserts[i].ok

\* C15: when the table exists and every batch insert succeeds, processImport
\* returns successCount = the number of data rows the reader admitted and
\* failedCount = 0, and the job completes with that result.
C15_AllInsertedWhenNoBatchFails ==
  /\ [](( /\ outcome = "returned"
          /\ pc \in {"finally", "settle"}
          /\ EveryInsertSucceeded )
          => (tableThere /\ successCount = admitted /\ failedCount = 0))
  /\ []((qstate = "completed" /\ EveryInsertSucceeded)
          => returnvalue = << [ successCount |-> admitted, failedCount |-> 0 ] >>)
  /\ [][ ( /\ pc = "settle"
           /\ pc' = "idle"
           /\ qstate = "active"
           /\ outcome = "returned" ) => qstate' = "completed" ]_vars

\* a job of two batches, a full one and a short one, has completed with
\* every row inserted
C15_Witness ==
  /\ qstate = "completed"
  /\ Len(inserts) = 2
  /\ EveryInsertSucceeded
  /\ admitted > batchSize
  /\ admitted < 2 * batchSize
  /\ returnvalue = << [ successCount |-> admitted, failedCount |-> 0 ] >>

\* C16: over the whole life of a job, retries included, the processed value
\* of the JobProgress the queue holds for it never decreases, and a
\* progress once recorded is not cleared.
C16_PersistedProcessedNeverDecreases ==
  [][ (progress # <<>>)
        => (progress' # <<>> /\ progress'[1].processed >= progress[1].processed) ]_vars

\* the queue holds the progress of the first batch and the update sent
\* after the second batch is on its way
C16_Witness ==
  /\ progress # <<>>
  /\ inflight # <<>>
  /\ progress[1].processed > 0
  /\ Head(inflight).processed > progress[1].processed

\* the JobProgress values the worker has reported: the argument of the last
\* callback, the updates on their way to the queue, and the one it holds
Reported ==
  { lastCb[i].progress : i \in 1..Len(lastCb) }
    \cup { inflight[i] : i \in 1..Len(inflight) }
    \cup { progress[i] : i \in 1..Len(progress) }

\* q is x = processed / total * 100 rounded to the nearest integer, halves
\* up:  q - 1/2 <= x < q + 1/2
IsRounded(q, processed, total) ==
  /\ total > 0
  /\ 2 * total * q - total <= 200 * processed
  /\ 200 * processed < 2 * total * q + total

C18_WorkerUsesSubmittedOptions ==
  /\ (pc \in {"next", "insert"}
        => (jobData # <<>> /\ totalRecords = jobData[1].totalRecords))
  /\ \A p \in Reported : (jobData # <<>> /\ p.total = jobData[1].totalRecords)

\* C19: for a job that completed with failures, the status returned to a
\* caller contains the list of the failed rows: its result has a
\* failedRecords field with at least one entry.
C19_FailedRowsAreReported ==
  \A i \in 1..Len(getJobStatus) :
    LET r == getJobStatus[i]
    IN (r.status = "completed" /\ r.result # <<>> /\ r.result[1].failedCount > 0)
         => ( /\ "failedRecords" \in DOMAIN r.result[1]
              /\ r.result[1].failedRecords # <<>> )

\* C20: within one job the bulk insert of a batch is started only when the
\* insert of the batch before it has settled (resolved or thrown), so at
\* most one insert is outstanding, and the batches are inserted in the order
\* the reader emits them: 0, 1, 2, ...
C20_BatchesInsertedOneAtATimeInOrder ==
  /\ Len(inserts) <= Len(started)
  /\ Len(started) <= Len(inserts) + 1
  /\ (Len(started) = Len(inserts) + 1 <=> pc = "insert")
  /\ \A i \in 1..Len(started) : started[i] = i - 1
  /\ \A i \in 1..Len(inserts) : inserts[i].batch = started[i]

\* both inserts of a two-batch file have been started and have settled, the
\* first one by throwing
C20_Witness ==
  /\ started = <<0, 1>>
  /\ Len(inserts) = 2
  /\ ~inserts[1].ok
  /\ inserts[2].ok
  /\ pc = "next"

\* the batches yielded so far, one after the other
RECURSIVE Flatten(_)
Flatten(seqs) == IF seqs = <<>> THEN <<>> ELSE Head(seqs) \o Flatten(Tail(seqs))

\* the row has a cell, under a header that is not blank, whose coerced value
\* is neither null nor the empty string
HasValueUnderHeader(ws, skip, r) ==
  \E c \in Cols :
    /\ Headers(ws, skip)[c] \notin { <<>>, <<"">> }
    /\ getCellValue(RowAt(ws, r)[c]) \notin { NullV, Str("") }

\* C21: the batches streamExcelRows yields, put one after the other, are the
\* admitted rows in the order of the sheet: always a beginning of them with
\* the row numbers rising, and all of them once the generator has finished,
\* so no admitted row is dropped, repeated or moved.
C21_BatchesAreTheAdmittedRowsInOrder ==
  LET out == Flatten(emitted)
  IN /\ Len(out) <= Len(batch)
     /\ \A k \in 1..Len(out) : out[k] = batch[k]
     /\ \A k \in 1..(Len(batch) - 1) : batch[k] < batch[k + 1]
     /\ (srpc = "done" => out = batch)
     /\ (srpc = "done"
           => \A r \in 1..worksheet[1].rowCount :
                (r > 1 + srSkipRows /\ HasValueUnderHeader(worksheet[1], srSkipRows, r))
                  => \E k \in 1..Len(out) : out[k] = r)

\* a sheet of a header row and 1001 data rows, one of them without a value,
\* has been yielded whole in two full batches
C21_Witness ==
  /\ srpc = "done"
  /\ Len(emitted) = 2
  /\ Len(Flatten(emitted)) = 2 * batchSize
  /\ worksheet[1].blankAt = {3}
  /\ Flatten(emitted)[2] = 4

C23_RowAdmission ==
  (srpc \in {"yielded", "done"})
    => \A r \in 1..worksheet[1].rowCount :
         (\E k \in 1..Len(batch) : batch[k] = r)
           <=> (r > 1 + srSkipRows /\ HasValueUnderHeader(worksheet[1], srSkipRows, r))

\* of two rows with a text under a blank header, the one that also has a
\* text under the header B was admitted and the other was left out
C23_Witness ==
  /\ srpc = "done"
  /\ srSkipRows = 0
  /\ worksheet[1].rowCount = 3
  /\ Headers(worksheet[1], 0) = [ c \in Cols |-> IF c = 1 THEN <<"">> ELSE <<"B">> ]
  /\ worksheet[1].probeAt = 2
  /\ worksheet[1].probe = [ c \in Cols |-> IF c = 1 THEN StringCell("A") ELSE StringCell("B") ]
  /\ batch = <<2>>

(***************************************************************************)
(* Claims about validation (ValidateSpec).                                 *)
(***************************************************************************)
\* the validation ran to the end of validateExcel: the file was read, it has
\* a sheet, and the table's columns were fetched where the table exists
ExcelValidated ==
  /\ validation # <<>>
  /\ validation[1].file = "ok"
  /\ validation[1].exists => validation[1].colsOk

HasError(result, message) ==
  \E i \in DOMAIN result.errors : result.errors[i].message = message

\* C24: a sheet with no row after the header/skip offset, for every
\* skipRows, also one that reaches or passes the last row of the sheet, is
\* answered isValid = false with the 'no data rows' error and rowCount = 0.
C24_NoDataRowsIsInvalid ==
  (ExcelValidated /\ worksheet[1].rowCount <= 1 + skipRows) =>
     /\ ~validation[1].result.isValid
     /\ HasError(validation[1].result, "Excel file contains no data rows")
     /\ validation[1].result.rowCount = 0

\* skipRows passes the last row of the sheet
C24_Witness ==
  /\ ExcelValidated
  /\ skipRows = 1
  /\ worksheet[1].rowCount = 1
  /\ HasError(validation[1].result, "Excel file contains no data rows")

\* the headers the sheet gives, as a set
HeaderSet ==
  { Headers(worksheet[1], skipRows)[c][1] :
      c \in { d \in Cols : Headers(worksheet[1], skipRows)[d] # <<>> } }

\* the table columns that no header gives
AbsentColumns ==
  { tableColumns[i] : i \in { j \in DOMAIN tableColumns : tableColumns[j] \notin HeaderSet } }

MissingErrors ==
  { i \in DOMAIN validation[1].result.errors :
      validation[1].result.errors[i].message = "Missing required columns" }

\* C25: when the table exists, the validation is invalid with a 'Missing
\* required columns' error that names exactly the table columns absent from
\* the trimmed headers, and has no such error when every table column is a
\* header.
C25_MissingColumnsAreNamed ==
  (ExcelValidated /\ validation[1].exists) =>
     IF AbsentColumns = {}
     THEN MissingErrors = {}
     ELSE /\ ~validation[1].result.isValid
          /\ Cardinality(MissingErrors) = 1
          /\ \A i \in MissingErrors :
               LET columns == validation[1].result.errors[i].columns
               IN /\ { columns[k] : k \in DOMAIN columns } = AbsentColumns
                  /\ Len(columns) = Cardinality(AbsentColumns)

\* two of three table columns are absent, the third is a header
C25_Witness ==
  /\ ExcelValidated
  /\ validation[1].exists
  /\ tableColumns = <<"B", "C", "D">>
  /\ AbsentColumns = {"C", "D"}
  /\ MissingErrors # {}

\* a request that asks for validation only
ValidationRequested == request = "validate" \/ validateOnly \in {"<true>", "true"}

\* C26: validation never writes: no batch is inserted into the table and no
\* job is enqueued, for valid and invalid files alike.
C26_ValidationNeverWrites ==
  ValidationRequested =>
     /\ qstate = "none"
     /\ jobData = <<>>
     /\ started = <<>>
     /\ inserts = <<>>

\* an upload with validateOnly = 'true' of a valid file was answered
C26_Witness ==
  /\ request = "upload"
  /\ validateOnly = "true"
  /\ response = <<200>>
  /\ validation[1].result.isValid
  /\ qstate = "none"

(***************************************************************************)
(* Claims about the repository (RepoSpec).                                 *)
(***************************************************************************)
\* the call has returned or thrown
CallEnded == dpc \in {"returned", "threw"}

\* C27: bulkInsertWithTVP is all-or-nothing per batch: for N records it
\* returns inserted = N, failed = 0 and no errors, or it throws the engine's
\* error and gives no result; when the engine takes the records it returns
\* inserted = N, failed = 0.
C27_TVPAllOrNothing ==
  (method = "tvp" /\ CallEnded) =>
     LET answer == attempts[Len(attempts)].message
     IN IF answer = "ok"
        THEN /\ dpc = "returned"
             /\ dbError = <<>>
             /\ dbResult = << [ inserted |-> Len(records), failed |-> 0, errors |-> <<>> ] >>
        ELSE /\ dpc = "threw"
             /\ dbError = << answer >>
             /\ dbResult = <<>>

\* the bulk copy of three records was rejected
C27_Witness ==
  /\ method = "tvp"
  /\ dpc = "threw"
  /\ Len(records) = 3
  /\ table # <<>>
  /\ dbResult = <<>>

\* the rows whose INSERT the engine rejected
FailedRows == { i \in DOMAIN attempts : attempts[i].message # "ok" }

\* C28: in per-row mode inserted + failed = N, each failed row has exactly
\* one error entry with its 1-based index and the engine's message, the rows
\* after a failing row are still attempted, and the transaction is committed
\* with the rows that succeeded.
C28_PerRowIsolation ==
  (method = "rows" /\ transaction # "none" /\ CallEnded) =>
     /\ dpc = "returned"
     /\ transaction = "committed"
     /\ dbResult[1].inserted + dbResult[1].failed = Len(records)
     /\ dbResult[1].failed = Cardinality(FailedRows)
     /\ Len(dbResult[1].errors) = Cardinality(FailedRows)
     /\ \A i \in FailedRows :
          \E e \in DOMAIN dbResult[1].errors :
             dbResult[1].errors[e] = [ row |-> i, error |-> attempts[i].message ]
     /\ Len(attempts) = Len(records)
     /\ \A i \in DOMAIN attempts : attempts[i].row = i

\* the type the mapping of inferSqlType gives to a value, case by case
MappedType(value) ==
  CASE value.kind \in {"null", "undefined"} -> "NVarChar(MAX)"
    [] value.kind = "number" /\ value.integral -> "Int"
    [] value.kind = "number" /\ ~value.integral -> "Decimal(18,2)"
    [] value.kind = "boolean" -> "Bit"
    [] value.kind = "Date" -> "DateTime"
    [] value.kind = "string" /\ value.startsYMD /\ value.parses -> "DateTime"
    [] OTHER -> IF value.length <= 255 THEN "NVarChar(255)"
                ELSE IF value.length <= 4000 THEN "NVarChar(4000)"
                ELSE "NVarChar(MAX)"

\* C29: inferSqlType gives NVarChar(MAX) to null and undefined, Int to an
\* integral number, Decimal(18,2) to another number, Bit to a boolean,
\* DateTime to a Date and to a string that starts with YYYY-MM-DD and parses
\* as a date, and to every other string NVarChar(255) up to 255 characters,
\* NVarChar(4000) up to 4000 and NVarChar(MAX) beyond.
C29_InferSqlTypeMapping ==
  table # <<>> =>
    \A k \in DOMAIN table[1].columns :
       table[1].columns[k].type = MappedType(Get(records[1], Keys(records[1])[k]))

\* a string that starts like a date and is none: a short string
C29_Witness ==
  /\ table # <<>>
  /\ records[1].a = StringValue(10, TRUE, FALSE)
  /\ table[1].columns[1].type = "NVarChar(255)"

\* C30: in bulkInsertWithTVP the columns and their types come from the first
\* record alone, whatever the later records hold, and no value under a key
\* that the first record lacks is sent.
C30_ColumnsFromFirstRecord ==
  table # <<>> =>
    LET first == records[1]
        keys == Keys(first)
    IN /\ Len(table[1].columns) = Cardinality(DOMAIN first)
       /\ \A k \in DOMAIN table[1].columns :
            table[1].columns[k] = [ name |-> Mapped(columnMapping, keys[k]),
                                    type |-> inferSqlType(first[keys[k]]),
                                    nullable |-> TRUE ]
       /\ Len(table[1].rows) = Len(records)
       /\ \A r \in DOMAIN table[1].rows :
            /\ Len(table[1].rows[r]) = Len(keys)
            /\ \A k \in DOMAIN keys : table[1].rows[r][k] = Get(records[r], keys[k])
            /\ \A k \in DOMAIN table[1].rows[r] : table[1].rows[r][k] # Extra

\* the first record has a null under "b", a later one a boolean, another a
\* key of its own
C30_Witness ==
  /\ table # <<>>
  /\ records = << [ a |-> Integer, b |-> Null ], [ b |-> Boolean ],
                  [ a |-> Integer, c |-> Extra ] >>
  /\ table[1].columns[2].type = "NVarChar(MAX)"
  /\ table[1].rows[3] = << Integer, Undefined >>

(***************************************************************************)
(* Claims about the queue's options and the life of the job (Spec).        *)
(***************************************************************************)
\* C31 as stated: a job that threw on every attempt had three retries, after
\* delays of 5 s, 10 s and 20 s, before it ended failed.
C31_ThreeBackoffDelays ==
  qstate = "failed" => delays = <<5000, 10000, 20000>>

\* C31: a job whose attempts throw is retried after 5 s and then after 10 s
\* (the n-th retry after 5 s * 2^(n-1)); there are two retries, and when the
\* third attempt has thrown the job is failed.
C31_BackoffDoublesThenFailed ==
  /\ Len(delays) = Min(attemptsMade, 2)
  /\ delays = SubSeq(<<5000, 10000>>, 1, Len(delays))
  /\ attemptsMade = 3 => qstate \in {"failed", "removed"}
  /\ qstate = "failed" => attemptsMade = 3 /\ delays = <<5000, 10000>>

\* every one of the three attempts threw and the job is failed
C31_Witness ==
  /\ qstate = "failed"
  /\ claims = 3
  /\ delays = <<5000, 10000>>

\* C32: after any sequence of job completions the queue holds at most 100
\* completed jobs.
C32_CompletedAtMost100 == completedJobs <= 100

C34_CountsAddUpToRowsRead ==
  (pc = "finally" /\ outcome = "returned") => successCount + failedCount = admitted

\* C35: every job that is enqueued eventually has its source file deleted,
\* whatever its outcome: completed, failed or cancelled, also when it is
\* cancelled before a worker claimed it.
C35_FileEventuallyDeleted == (qstate # "none") ~> (~fileExists)

\* C36: a status request answers null exactly when the job is not in the
\* queue; otherwise its status is processing iff the state is active,
\* completed iff completed, failed iff failed and pending for every other
\* state, a failed status carries the failure reason as error and a
\* completed status carries the orchestrator's return value as result
C36_StatusFollowsQueueState ==
  [][ /\ (spc = "idle" /\ spc' # "idle") =>
          ((spc' = "done" /\ statusResult'[1].answer = <<>>) <=> ~JobInQueue)
      /\ (spc = "getState" /\ spc' = "done") =>
          LET call == statusResult'[1]
              r == call.answer[1]
          IN /\ call.answer # <<>>
             /\ (r.status = "processing") <=> (call.state = "active")
             /\ (r.status = "completed") <=> (call.state = "completed")
             /\ (r.status = "failed") <=> (call.state = "failed")
             /\ (r.status = "pending") <=> (call.state \notin {"active", "completed", "failed"})
             /\ (r.status = "failed") => (r.error # <<>> /\ r.error = failedReason)
             /\ (r.status = "completed") => (r.result # <<>> /\ r.result = returnvalue)
    ]_vars

\* C37: getAllJobs() without a status filter has an entry for every job for
\* which getJobStatus answers non-null, with the same status and progress
C37_AllJobsListsEveryJob ==
  getJobStatus # <<>> =>
    /\ getAllJobs # <<>>
    /\ getAllJobs[1].status = getJobStatus[1].status
    /\ getAllJobs[1].progress = getJobStatus[1].progress

C38_ValidateWitness ==
  /\ tableThere
  /\ validation # <<>>
  /\ ~validation[1].exists
  /\ Head(validation[1].result.errors) = Error("Table does not exist")

(***************************************************************************)
(* The process: startServer, the signal handlers of the worker module and  *)
(* of startServer, gracefulShutdown and stopWorker.                        *)
(***************************************************************************)
\* the process has just been started: the worker module is loaded and its
\* handlers are registered, startServer awaits db.connect()
ShutdownInit ==
  /\ MainIdle
  /\ ReaderIdle
  /\ ValidateIdle
  /\ RepoIdle
  /\ QueueIdle
  /\ StatusIdle
  /\ phase = "starting"
  /\ signals = 0
  /\ workerHandlers = 0
  /\ shutdowns = <<>>
  /\ timers = 0
  /\ connections = 0
  /\ worker = "none"
  /\ activeJobs = 0
  /\ pool = "none"
  /\ exitCode = <<>>

\* process.exit(code)
Exit(code) == exitCode' = <<code>>

\* startServer: db.connect(), startWorker(), app.listen, and the handlers of
\* startServer registered; a failure ends in the catch block with exit(1).
\* A handler of the worker module that waits resumes first.
startServer ==
  /\ exitCode = <<>>
  /\ phase = "starting"
  /\ workerHandlers = 0
  /\ \E ok \in BOOLEAN :
       IF ok
       THEN /\ pool' = "open"
            /\ worker' = "open"
            /\ phase' = "listening"
            /\ UNCHANGED exitCode
       ELSE /\ Exit(1)
            /\ UNCHANGED <<pool, worker, phase>>
  /\ UNCHANGED <<mainVars, readerVars, validateVars, repoVars, queueVars, statusVars,
                 signals, workerHandlers, shutdowns, timers, connections,
                 activeJobs>>

\* a client opens a connection to the listening server
http_connect ==
  /\ exitCode = <<>>
  /\ phase = "listening"
  /\ connections < MaxConnections
  /\ connections' = connections + 1
  /\ UNCHANGED <<mainVars, readerVars, validateVars, repoVars, queueVars, statusVars,
                 phase, signals, workerHandlers, shutdowns, timers, worker, activeJobs,
                 pool, exitCode>>

\* a connection ends
http_end ==
  /\ exitCode = <<>>
  /\ connections > 0
  /\ connections' = connections - 1
  /\ UNCHANGED <<mainVars, readerVars, validateVars, repoVars, queueVars, statusVars,
                 phase, signals, workerHandlers, shutdowns, timers, worker, activeJobs,
                 pool, exitCode>>

\* stopWorker up to its await: if (workerInstance) await workerInstance.close()
stopWorker == IF worker = "open" THEN "closing" ELSE worker

\* SIGTERM or SIGINT: the listeners run in the order they were registered.
\* The worker module's handler calls stopWorker and waits; gracefulShutdown,
\* when startServer has registered it, calls server.close and arms the timer
onSignal ==
  /\ exitCode = <<>>
  /\ signals < MaxSignals
  /\ signals' = signals + 1
  /\ workerHandlers' = workerHandlers + 1
  /\ worker' = stopWorker
  /\ IF phase = "starting"
     THEN UNCHANGED <<phase, shutdowns, timers>>
     ELSE /\ phase' = "closing"
          /\ shutdowns' = Append(shutdowns, "server.close")
          /\ timers' = timers + 1
  /\ UNCHANGED <<mainVars, readerVars, validateVars, repoVars, queueVars, statusVars,
                 connections, activeJobs, pool, exitCode>>

\* the callback of server.close, once no connection is left: await stopWorker()
gracefulShutdown_serverClosed ==
  /\ exitCode = <<>>
  /\ connections = 0
  /\ \E i \in 1..Len(shutdowns) :
       /\ shutdowns[i] = "server.close"
       /\ shutdowns' = [shutdowns EXCEPT ![i] = "stopWorker"]
  /\ worker' = stopWorker
  /\ UNCHANGED <<mainVars, readerVars, validateVars, repoVars, queueVars, statusVars,
                 phase, signals, workerHandlers, timers, connections, activeJobs,
                 pool, exitCode>>

\* worker.close() resolves: the jobs under way have ended
worker_closed ==
  /\ exitCode = <<>>
  /\ worker = "closing"
  /\ activeJobs = 0
  /\ worker' = "closed"
  /\ UNCHANGED <<mainVars, readerVars, validateVars, repoVars, queueVars, statusVars,
                 phase, signals, workerHandlers, shutdowns, timers, connections,
                 activeJobs, pool, exitCode>>

\* the open worker takes a job from the queue
worker_takesJob ==
  /\ exitCode = <<>>
  /\ worker = "open"
  /\ activeJobs < MaxActive
  /\ activeJobs' = activeJobs + 1
  /\ UNCHANGED <<mainVars, readerVars, validateVars, repoVars, queueVars, statusVars,
                 phase, signals, workerHandlers, shutdowns, timers, connections,
                 worker, pool, exitCode>>

\* processJob returns or throws
worker_endsJob ==
  /\ exitCode = <<>>
  /\ activeJobs > 0
  /\ activeJobs' = activeJobs - 1
  /\ UNCHANGED <<mainVars, readerVars, validateVars, repoVars, queueVars, statusVars,
                 phase, signals, workerHandlers, shutdowns, timers, connections,
                 worker, pool, exitCode>>

\* the first function waiting in await stopWorker() resumes. Every call of
\* worker.close() waits for the same closing, so the waiters resume in the
\* order they called: a handler of the worker module (process.exit(0)) before
\* any callback of server.close (await db.close(); process.exit(0))
stopWorker_resolved ==
  /\ exitCode = <<>>
  /\ worker \in {"none", "closed"}
  /\ IF workerHandlers > 0
     THEN /\ Exit(0)
          /\ UNCHANGED pool
     ELSE /\ \E i \in 1..Len(shutdowns) : shutdowns[i] = "stopWorker"
          /\ pool' = "closed"
          /\ Exit(0)
  /\ UNCHANGED <<mainVars, readerVars, validateVars, repoVars, queueVars, statusVars,
                 phase, signals, workerHandlers, shutdowns, timers, connections,
                 worker, activeJobs>>

\* setTimeout(() => process.exit(1), 30000) fires
gracefulShutdown_timeout ==
  /\ exitCode = <<>>
  /\ timers > 0
  /\ Exit(1)
  /\ UNCHANGED <<mainVars, readerVars, validateVars, repoVars, queueVars, statusVars,
                 phase, signals, workerHandlers, shutdowns, timers, connections,
                 worker, activeJobs, pool>>

ShutdownNext ==
  \/ startServer
  \/ http_connect
  \/ http_end
  \/ onSignal
  \/ gracefulShutdown_serverClosed
  \/ worker_takesJob
  \/ worker_endsJob
  \/ worker_closed
  \/ stopWorker_resolved
  \/ gracefulShutdown_timeout

ShutdownSpec == ShutdownInit /\ [][ShutdownNext]_vars

\* timers fire and functions whose await has resolved resume
ShutdownFairSpec ==
  /\ ShutdownInit
  /\ [][ShutdownNext]_vars
  /\ WF_vars(stopWorker_resolved)
  /\ WF_vars(gracefulShutdown_timeout)

\* C39: whenever the process has exited with code 0 after a signal, the
\* worker has been closed and the database pool has been closed (a worker
\* or a pool that was never opened counts as closed)
C39_ExitZeroAfterWorkerAndPoolClosed ==
  exitCode = <<0>> =>
    /\ worker \in {"none", "closed"}
    /\ pool \in {"none", "closed"}

\* once a signal has been delivered the process eventually exits
C39_SignalLeadsToExit == (signals > 0) ~> (exitCode # <<>>)

====
